---- MODULE Spec2Model ----
(***************************************************************************)
(* State machine of src/src/components/UserSuggest.vue (script setup):    *)
(* the debounced, abortable user search, the suggestion dropdown, the     *)
(* keyboard and pointer handlers and the two-way bound selection.         *)
(*                                                                         *)
(* One action is one task of the browser's event loop (a DOM event        *)
(* handler, a timer callback, the arrival of a network response).  The    *)
(* continuation of an awaited promise that a handler settles itself       *)
(* (abortCtrl.abort()) is a microtask: it is a step of its own, and no    *)
(* other task runs before it (variable micro).                            *)
(***************************************************************************)
EXTENDS Integers, Sequences, FiniteSets

\* ---------------------------------------------------------------- bounds
MaxLen == 1          \* longest text typed into the input
MaxResults == 2      \* longest result list the lookup service returns
MaxBlurTimers == 1   \* blur grace timers pending at once

\* ---------------------------------------------------------------- values
Chars == {"a", " "}
Users == {"u1", "u2"}
Null == "null"            \* selectedUser.value = null
Undefined == "undefined"  \* suggestions.value[i] past the end of the array

RECURSIVE SeqsUpTo(_, _)
SeqsUpTo(S, n) ==
  IF n = 0 THEN {<<>>}
  ELSE LET shorter == SeqsUpTo(S, n - 1)
       IN  shorter \cup {Append(s, x) : s \in shorter, x \in S}

Texts == SeqsUpTo(Chars, MaxLen)

NoRepeat(s) == \A i, j \in 1..Len(s) : i # j => s[i] # s[j]
Results == {s \in SeqsUpTo(Users, MaxResults) : NoRepeat(s)}

\* The JSON bodies the lookup service answers with: { results: User[] } or a
\* bare User[].
Payloads ==
  {[tag |-> "object", results |-> r, elems |-> <<>>] : r \in Results}
    \cup {[tag |-> "array", results |-> <<>>, elems |-> r] : r \in Results}

\* String.prototype.trim
RECURSIVE TrimStart(_)
TrimStart(s) == IF s # <<>> /\ Head(s) = " " THEN TrimStart(Tail(s)) ELSE s
RECURSIVE TrimEnd(_)
TrimEnd(s) ==
  IF s # <<>> /\ s[Len(s)] = " " THEN TrimEnd(SubSeq(s, 1, Len(s) - 1)) ELSE s
trim(s) == TrimEnd(TrimStart(s))

\* JavaScript truthiness of a User | null | undefined
Truthy(u) == u \notin {Null, Undefined}

Min(a, b) == IF a < b THEN a ELSE b

NoReq == [live |-> FALSE, query |-> <<>>]

VARIABLES
  selectedUser,   \* defineModel: a user, Null or Undefined
  searchQuery,    \* the input's text (ref, mirrored by :value)
  suggestions,    \* sequence of users
  isOpen, isLoading,
  activeIndex,    \* 0-based, -1 for no highlight
  isFocused,
  debounceTimer,  \* number of pending debounce callbacks
  req,            \* the request of abortCtrl that is not yet settled
  outstanding,    \* requests issued, neither aborted nor settled
  micro,          \* "abort": the aborted call's continuation is queued
  domFocus,       \* the input element really has the focus
  blurTimers,     \* pending grace timers of handleBlur
  mounted,
  keys, lastKey, calls,  \* history: keystrokes of the current burst (1, or 2 for
                         \* more), the last keystroke's text, fetch() calls
                         \* since the burst began
  origin,         \* history: what wrote selectedUser last
  graceClick,     \* history: the last commit was a mouse-down made between a
                  \* blur and the firing of its grace timer
  ev, arg         \* history: the last handler that ran and its argument

vars == <<selectedUser, searchQuery, suggestions, isOpen, isLoading, activeIndex,
          isFocused, debounceTimer, req, outstanding, micro, domFocus, blurTimers,
          mounted, keys, lastKey, calls, origin, graceClick, ev, arg>>

Init ==
  /\ selectedUser = Null
  /\ searchQuery = <<>>
  /\ suggestions = <<>>
  /\ isOpen = FALSE
  /\ isLoading = FALSE
  /\ activeIndex = -1
  /\ isFocused = FALSE
  /\ debounceTimer = 0
  /\ req = NoReq
  /\ outstanding = 0
  /\ micro = "none"
  /\ domFocus = FALSE
  /\ blurTimers = 0
  /\ mounted = TRUE
  /\ keys = 0
  /\ lastKey = <<>>
  /\ calls = 0
  /\ origin = "init"
  /\ graceClick = FALSE
  /\ ev = "init"
  /\ arg = "-"

\* :disabled="!!selectedUser"
Disabled == Truthy(selectedUser)
\* v-if="isOpen && !selectedUser": the list items exist in the DOM
DropdownVisible == isOpen /\ ~Truthy(selectedUser)
\* a task of the event loop starts only when the microtask queue is empty
Idle == micro = "none"
InFlight == req.live

\* suggestions.value[i]
At(i) == IF i + 1 \in 1..Len(suggestions) THEN suggestions[i + 1] ELSE Undefined

\* The input is disabled as soon as selectedUser is truthy.  A focused input
\* that becomes disabled loses the focus; whether the browser then dispatches
\* a blur event (and so runs handleBlur) differs between browsers.
BecomesDisabled(sel) ==
  IF Truthy(sel) /\ domFocus
  THEN /\ domFocus' = FALSE
       /\ \E n \in {blurTimers, Min(blurTimers + 1, MaxBlurTimers)} : blurTimers' = n
  ELSE UNCHANGED <<domFocus, blurTimers>>

\* ------------------------------------------------------------ fetchUsers
\* fetchUsers without abortCtrl.abort(): the previous request stays live
fetchUsers_noAbort(query) ==
  /\ micro' = "none"
  /\ IF trim(query) = <<>>
     THEN /\ suggestions' = <<>>
          /\ isOpen' = FALSE
          /\ UNCHANGED <<req, outstanding, isLoading, calls>>
     ELSE /\ isLoading' = TRUE
          /\ req' = [live |-> TRUE, query |-> query]
          /\ outstanding' = outstanding + 1
          /\ calls' = calls + 1
          /\ UNCHANGED <<suggestions, isOpen>>

\* fetchUsers returning at once while a request is loading
fetchUsers_busyGuard(query) ==
  IF isLoading
  THEN UNCHANGED <<micro, suggestions, isOpen, req, outstanding, isLoading, calls>>
  ELSE /\ micro' = IF InFlight THEN "abort" ELSE "none"
       /\ IF trim(query) = <<>>
          THEN /\ suggestions' = <<>>
               /\ isOpen' = FALSE
               /\ req' = NoReq
               /\ outstanding' = IF InFlight THEN outstanding - 1 ELSE outstanding
               /\ UNCHANGED <<isLoading, calls>>
          ELSE /\ isLoading' = TRUE
               /\ req' = [live |-> TRUE, query |-> query]
               /\ outstanding' = (IF InFlight THEN outstanding - 1 ELSE outstanding) + 1
               /\ calls' = calls + 1
               /\ UNCHANGED <<suggestions, isOpen>>

\* fetchUsers testing !query instead of !query.trim()
fetchUsers_noTrim(query) ==
  /\ micro' = IF InFlight THEN "abort" ELSE "none"
  /\ IF query = <<>>
     THEN /\ suggestions' = <<>>
          /\ isOpen' = FALSE
          /\ req' = NoReq
          /\ outstanding' = IF InFlight THEN outstanding - 1 ELSE outstanding
          /\ UNCHANGED <<isLoading, calls>>
     ELSE /\ isLoading' = TRUE
          /\ req' = [live |-> TRUE, query |-> query]
          /\ outstanding' = (IF InFlight THEN outstanding - 1 ELSE outstanding) + 1
          /\ calls' = calls + 1
          /\ UNCHANGED <<suggestions, isOpen>>

\* lines 41-55: up to the first await
fetchUsers(query) ==
  /\ micro' = IF InFlight THEN "abort" ELSE "none"
  /\ IF trim(query) = <<>>
     THEN /\ suggestions' = <<>>
          /\ isOpen' = FALSE
          /\ req' = NoReq
          /\ outstanding' = IF InFlight THEN outstanding - 1 ELSE outstanding
          /\ UNCHANGED <<isLoading, calls>>
     ELSE /\ isLoading' = TRUE
          /\ req' = [live |-> TRUE, query |-> query]
          /\ outstanding' = (IF InFlight THEN outstanding - 1 ELSE outstanding) + 1
          /\ calls' = calls + 1
          /\ UNCHANGED <<suggestions, isOpen>>

\* data.results || data || []
Normalize(data) == IF data.tag = "object" THEN data.results ELSE data.elems

\* onSuccess appending the new results to the old list
onSuccess_merges(data) ==
  /\ suggestions' = suggestions \o Normalize(data)
  /\ IF Len(suggestions \o Normalize(data)) # 0
     THEN isOpen' = TRUE /\ activeIndex' = -1
     ELSE isOpen' = FALSE /\ UNCHANGED activeIndex
  /\ isLoading' = FALSE

\* lines 59-67 and the finally block: the body was read and parsed
onSuccess(data) ==
  /\ suggestions' = Normalize(data)
  /\ IF Len(Normalize(data)) # 0
     THEN isOpen' = TRUE /\ activeIndex' = -1
     ELSE isOpen' = FALSE /\ UNCHANGED activeIndex
  /\ isLoading' = FALSE

\* lines 68-75 with e.name # 'AbortError'
onError ==
  /\ suggestions' = <<>>
  /\ isLoading' = FALSE
  /\ UNCHANGED <<isOpen, activeIndex>>

\* the catch block without its test of e.name
onAbort_clears ==
  /\ suggestions' = <<>>
  /\ isLoading' = FALSE
  /\ UNCHANGED <<isOpen, activeIndex>>

\* lines 68-75 with e.name = 'AbortError'
onAbort ==
  /\ isLoading' = FALSE
  /\ UNCHANGED <<suggestions, isOpen, activeIndex>>

\* The continuation of the call whose request fetchUsers has just aborted.
AbortHandled ==
  /\ micro = "abort"
  /\ onAbort
  /\ micro' = "none"
  /\ ev' = "abortHandled" /\ arg' = "-"
  /\ UNCHANGED <<origin, graceClick, selectedUser, searchQuery, isFocused, debounceTimer, req, outstanding, domFocus,
                 blurTimers, mounted, keys, lastKey, calls>>

\* The request settles without having been aborted.  A response with an OK
\* status changes nothing until its body is read (the second await), so the
\* two awaits are one step: the parsed body arrives,
Succeeds(data) ==
  /\ Idle /\ InFlight
  /\ onSuccess(data)
  /\ req' = NoReq
  /\ outstanding' = outstanding - 1
  /\ ev' = "success" /\ arg' = data
  /\ UNCHANGED <<origin, graceClick, selectedUser, searchQuery, isFocused, debounceTimer, micro, domFocus,
                 blurTimers, mounted, keys, lastKey, calls>>

\* or the status is not OK, the transport fails, or the body is no JSON (or
\* is the JSON null, on which data.results throws).
Fails ==
  /\ Idle /\ InFlight
  /\ onError
  /\ req' = NoReq
  /\ outstanding' = outstanding - 1
  /\ ev' = "fail" /\ arg' = "-"
  /\ UNCHANGED <<origin, graceClick, selectedUser, searchQuery, isFocused, debounceTimer, micro, domFocus,
                 blurTimers, mounted, keys, lastKey, calls>>

\* ---------------------------------------------------------------- onInput
\* onInput without its clearTimeout
onInput_keepsTimer(t) ==
  /\ searchQuery' = t
  /\ debounceTimer' = debounceTimer + 1
  /\ UNCHANGED <<suggestions, isOpen, isLoading, req, outstanding, micro>>

\* lines 78-85: the user changed the input's text to t
onInput(t) ==
  /\ searchQuery' = t
  /\ debounceTimer' = 1
  /\ UNCHANGED <<suggestions, isOpen, isLoading, req, outstanding, micro>>

Input(t) ==
  /\ Idle /\ mounted /\ domFocus /\ ~Disabled
  /\ t # searchQuery
  /\ onInput(t)
  /\ keys' = IF debounceTimer > 0 THEN 2 ELSE 1
  /\ calls' = IF debounceTimer > 0 THEN calls ELSE 0
  /\ lastKey' = t
  /\ ev' = "onInput" /\ arg' = "-"
  /\ UNCHANGED <<origin, graceClick, selectedUser, activeIndex, isFocused, domFocus, blurTimers, mounted>>

\* line 84: the debounce callback runs fetchUsers(target.value).  target is
\* the input element, whose value the render keeps equal to searchQuery.
DebounceFires ==
  /\ Idle /\ debounceTimer > 0
  /\ debounceTimer' = debounceTimer - 1
  /\ fetchUsers(searchQuery)
  /\ ev' = "debounce" /\ arg' = "-"
  /\ UNCHANGED <<origin, graceClick, selectedUser, searchQuery, activeIndex, isFocused, domFocus,
                 blurTimers, mounted, keys, lastKey>>

\* ------------------------------------------------------- focus and blur
\* lines 91-97
handleFocus ==
  /\ isFocused' = TRUE
  /\ isOpen' = IF searchQuery # <<>> /\ Len(suggestions) # 0 THEN TRUE ELSE isOpen

\* lines 99-104: only schedules the grace timer
handleBlur == blurTimers' = Min(blurTimers + 1, MaxBlurTimers)

\* the user clicks into the control or tabs to the input
Focus ==
  /\ Idle /\ mounted /\ ~domFocus /\ ~Disabled
  /\ domFocus' = TRUE
  /\ handleFocus
  /\ ev' = "focus" /\ arg' = "-"
  /\ UNCHANGED <<origin, graceClick, selectedUser, searchQuery, suggestions, isLoading, activeIndex,
                 debounceTimer, req, outstanding, micro, blurTimers, mounted, keys, lastKey, calls>>

\* the blur closing the dropdown at once instead of after the grace delay
Blur_closesAtOnce ==
  /\ Idle /\ mounted /\ domFocus
  /\ domFocus' = FALSE
  /\ handleBlur
  /\ isOpen' = FALSE
  /\ ev' = "blur" /\ arg' = "-"
  /\ UNCHANGED <<origin, graceClick, selectedUser, searchQuery, suggestions, isLoading,
                 activeIndex, isFocused, debounceTimer, req, outstanding, micro, mounted,
                 keys, lastKey, calls>>

\* the user clicks elsewhere or tabs away
Blur ==
  /\ Idle /\ mounted /\ domFocus
  /\ domFocus' = FALSE
  /\ handleBlur
  /\ ev' = "blur" /\ arg' = "-"
  /\ UNCHANGED <<origin, graceClick, selectedUser, searchQuery, suggestions, isOpen, isLoading, activeIndex,
                 isFocused, debounceTimer, req, outstanding, micro, mounted, keys, lastKey, calls>>

\* lines 100-103: the callback of the grace timer
BlurTimerFires ==
  /\ Idle /\ blurTimers > 0
  /\ blurTimers' = blurTimers - 1
  /\ isFocused' = FALSE
  /\ isOpen' = FALSE
  /\ ev' = "blurTimer" /\ arg' = "-"
  /\ UNCHANGED <<origin, graceClick, selectedUser, searchQuery, suggestions, isLoading, activeIndex,
                 debounceTimer, req, outstanding, micro, domFocus, mounted, keys, lastKey, calls>>

\* ------------------------------------------------- selection and the list
\* selectItem leaving the list in place
selectItem_keepsList(user) ==
  /\ selectedUser' = user
  /\ searchQuery' = <<>>
  /\ isOpen' = FALSE
  /\ UNCHANGED suggestions

\* lines 106-111
selectItem(user) ==
  /\ selectedUser' = user
  /\ searchQuery' = <<>>
  /\ suggestions' = <<>>
  /\ isOpen' = FALSE

\* @mousedown.prevent on the i-th rendered item
MouseDown(i) ==
  /\ Idle /\ mounted /\ DropdownVisible
  /\ i \in 1..Len(suggestions)
  /\ selectItem(suggestions[i])
  /\ BecomesDisabled(suggestions[i])
  /\ origin' = "commit"
  /\ graceClick' = (~domFocus /\ blurTimers > 0)
  /\ ev' = "mousedown" /\ arg' = suggestions[i]
  /\ UNCHANGED <<isLoading, activeIndex, isFocused, debounceTimer, req, outstanding, micro, mounted,
                 keys, lastKey, calls>>

\* @mouseenter on the i-th rendered item
MouseEnter(i) ==
  /\ Idle /\ mounted /\ DropdownVisible
  /\ i \in 1..Len(suggestions)
  /\ activeIndex' = i - 1
  /\ ev' = "mouseenter" /\ arg' = "-"
  /\ UNCHANGED <<origin, graceClick, selectedUser, searchQuery, suggestions, isOpen, isLoading, isFocused,
                 debounceTimer, req, outstanding, micro, domFocus, blurTimers, mounted, keys,
                 lastKey, calls>>

\* lines 113-119, with the nextTick callback: the input is enabled again,
\* inputRef.focus() gives it the focus and the focus event runs handleFocus
clearSelection ==
  /\ selectedUser' = Null
  /\ domFocus' = TRUE
  /\ handleFocus

\* click on the close button of the tag (v-if="selectedUser")
ClearClick ==
  /\ Idle /\ mounted /\ Truthy(selectedUser)
  /\ clearSelection
  /\ origin' = "clear"
  /\ graceClick' = FALSE
  /\ ev' = "clear" /\ arg' = origin
  /\ UNCHANGED <<searchQuery, suggestions, isLoading, activeIndex, debounceTimer, req, outstanding,
                 micro, blurTimers, mounted, keys, lastKey, calls>>

\* onKeydown with ArrowDown wrapping from the last item to the first
onKeydown_wraps(key) ==
  IF ~isOpen THEN
    UNCHANGED <<selectedUser, searchQuery, suggestions, isOpen, activeIndex, domFocus,
                blurTimers>> /\ arg' = "-"
  ELSE IF key = "ArrowDown" THEN
    /\ activeIndex' = IF activeIndex < Len(suggestions) - 1 THEN activeIndex + 1 ELSE 0
    /\ UNCHANGED <<selectedUser, searchQuery, suggestions, isOpen, domFocus, blurTimers>>
    /\ arg' = "-"
  ELSE IF key = "ArrowUp" THEN
    /\ activeIndex' = IF activeIndex > 0 THEN activeIndex - 1 ELSE activeIndex
    /\ UNCHANGED <<selectedUser, searchQuery, suggestions, isOpen, domFocus, blurTimers>>
    /\ arg' = "-"
  ELSE IF key = "Enter" /\ activeIndex >= 0 THEN
    /\ selectItem(At(activeIndex))
    /\ BecomesDisabled(At(activeIndex))
    /\ arg' = At(activeIndex)
    /\ UNCHANGED activeIndex
  ELSE IF key = "Escape" THEN
    /\ isOpen' = FALSE
    /\ domFocus' = FALSE
    /\ handleBlur
    /\ UNCHANGED <<selectedUser, searchQuery, suggestions, activeIndex>>
    /\ arg' = "-"
  ELSE
    UNCHANGED <<selectedUser, searchQuery, suggestions, isOpen, activeIndex, domFocus,
                blurTimers>> /\ arg' = "-"

\* lines 121-151
onKeydown(key) ==
  IF ~isOpen THEN
    UNCHANGED <<selectedUser, searchQuery, suggestions, isOpen, activeIndex, domFocus,
                blurTimers>> /\ arg' = "-"
  ELSE IF key = "ArrowDown" THEN
    /\ activeIndex' = IF activeIndex < Len(suggestions) - 1 THEN activeIndex + 1
                      ELSE activeIndex
    /\ UNCHANGED <<selectedUser, searchQuery, suggestions, isOpen, domFocus, blurTimers>>
    /\ arg' = "-"
  ELSE IF key = "ArrowUp" THEN
    /\ activeIndex' = IF activeIndex > 0 THEN activeIndex - 1 ELSE activeIndex
    /\ UNCHANGED <<selectedUser, searchQuery, suggestions, isOpen, domFocus, blurTimers>>
    /\ arg' = "-"
  ELSE IF key = "Enter" /\ activeIndex >= 0 THEN
    /\ selectItem(At(activeIndex))
    /\ BecomesDisabled(At(activeIndex))
    /\ arg' = At(activeIndex)
    /\ UNCHANGED activeIndex
  ELSE IF key = "Escape" THEN
    /\ isOpen' = FALSE
    /\ domFocus' = FALSE
    /\ handleBlur
    /\ UNCHANGED <<selectedUser, searchQuery, suggestions, activeIndex>>
    /\ arg' = "-"
  ELSE
    UNCHANGED <<selectedUser, searchQuery, suggestions, isOpen, activeIndex, domFocus,
                blurTimers>> /\ arg' = "-"

Keys == {"ArrowDown", "ArrowUp", "Enter", "Escape"}

KeyDown(key) ==
  /\ Idle /\ mounted /\ domFocus /\ ~Disabled
  /\ onKeydown(key)
  /\ origin' = IF arg' # "-" THEN "commit" ELSE origin
  /\ graceClick' = IF arg' # "-" THEN FALSE ELSE graceClick
  /\ ev' = key
  /\ UNCHANGED <<isLoading, isFocused, debounceTimer, req, outstanding, micro, mounted, keys,
                 lastKey, calls>>

\* the host writes the bound value (v-model); nothing watches selectedUser
HostSet(v) ==
  /\ Idle /\ mounted
  /\ v # selectedUser
  /\ selectedUser' = v
  /\ BecomesDisabled(v)
  /\ origin' = "host"
  /\ graceClick' = FALSE
  /\ ev' = "hostSet" /\ arg' = v
  /\ UNCHANGED <<searchQuery, suggestions, isOpen, isLoading, activeIndex, isFocused,
                 debounceTimer, req, outstanding, micro, mounted, keys, lastKey, calls>>

\* onUnmounted without its clearTimeout
Unmount_keepsTimer ==
  /\ Idle /\ mounted
  /\ mounted' = FALSE
  /\ domFocus' = FALSE
  /\ ev' = "unmount" /\ arg' = "-"
  /\ UNCHANGED <<origin, graceClick, selectedUser, searchQuery, suggestions, isOpen,
                 isLoading, activeIndex, isFocused, debounceTimer, req, outstanding,
                 micro, blurTimers, keys, lastKey, calls>>

\* lines 164-166; the element leaves the document
Unmount ==
  /\ Idle /\ mounted
  /\ mounted' = FALSE
  /\ debounceTimer' = 0
  /\ domFocus' = FALSE
  /\ ev' = "unmount" /\ arg' = "-"
  /\ UNCHANGED <<origin, graceClick, selectedUser, searchQuery, suggestions, isOpen, isLoading, activeIndex,
                 isFocused, req, outstanding, micro, blurTimers, keys, lastKey, calls>>

Next ==
  \/ \E t \in Texts : Input(t)
  \/ DebounceFires
  \/ AbortHandled
  \/ \E data \in Payloads : Succeeds(data)
  \/ Fails
  \/ Focus
  \/ Blur
  \/ BlurTimerFires
  \/ \E i \in 1..MaxResults : MouseDown(i)
  \/ \E i \in 1..MaxResults : MouseEnter(i)
  \/ ClearClick
  \/ \E key \in Keys : KeyDown(key)
  \/ \E v \in Users \cup {Null} : HostSet(v)
  \/ Unmount

Spec == Init /\ [][Next]_vars

TypeOK ==
  /\ selectedUser \in Users \cup {Null, Undefined}
  /\ searchQuery \in Texts
  /\ suggestions \in Results
  /\ isOpen \in BOOLEAN /\ isLoading \in BOOLEAN /\ isFocused \in BOOLEAN
  /\ activeIndex \in -1..MaxResults
  /\ debounceTimer \in 0..1
  /\ micro \in {"none", "abort"}
  /\ blurTimers \in 0..MaxBlurTimers

\* ================================================================ claims

\* C1: when a search is superseded (the next fetchUsers call aborts it before
\* its response was handled), the handling of its resolution leaves
\* suggestions, isOpen and activeIndex exactly as they were.
C1_SupersededIsInert ==
  [][(micro = "abort" /\ micro' = "none")
       => UNCHANGED <<suggestions, isOpen, activeIndex>>]_vars

\* the superseded call was handled while the list it must not touch is shown
\* and the superseding request is in flight
C1_Witness ==
  ev = "abortHandled" /\ req.live /\ suggestions # <<>> /\ isOpen /\ activeIndex >= 0

\* C2 (as claimed): a request for a non-empty query is in flight, the last
\* keystroke emptied the input, and the response arrives: suggestions stays
\* empty and the dropdown stays closed.
C2_ClearedInputDropsResponse ==
  [][(ev' = "success" /\ req.live /\ req.query # <<>> /\ searchQuery = <<>>
        /\ lastKey = <<>>)
       => (suggestions' = <<>> /\ ~isOpen')]_vars

\* C3 (as claimed): right after the text-change event with empty text the
\* list is empty and the dropdown closed.
C3_EmptyTextClearsAtOnce ==
  (ev = "onInput" /\ searchQuery = <<>>) => (suggestions = <<>> /\ ~isOpen)

\* C4 (as claimed): after a burst of keystrokes whose final text is
\* non-empty, the timer's firing has issued exactly one request, for that text.
C4_AsClaimed ==
  (ev = "debounce" /\ lastKey # <<>>)
    => (calls = 1 /\ req.live /\ req.query = lastKey)

\* C4 (amended): the keystrokes of a burst issue no request and leave one
\* timer pending; when it fires and the input still holds the final
\* keystroke's text, which is not blank after trimming, exactly one request
\* has been issued since the burst began, for that text.
C4_DebounceLaw ==
  /\ ev = "onInput" => (calls = 0 /\ debounceTimer > 0)
  /\ (ev = "debounce" /\ searchQuery = lastKey /\ trim(lastKey) # <<>>)
       => (calls = 1 /\ req.live /\ req.query = lastKey)

\* a burst of at least two keystrokes ended in one request
C4_Witness ==
  /\ ev = "debounce" /\ keys = 2 /\ searchQuery = lastKey /\ trim(lastKey) # <<>>
  /\ calls = 1 /\ req.query = lastKey

\* C5: a request is issued only by the debounce callback, and only for a
\* query that is not blank; no keystroke issues one.
C5_OnlyNonBlankAfterDebounce ==
  [][(calls' > calls \/ (req'.live /\ req' # req))
       => (debounceTimer > 0 /\ ev' = "debounce" /\ calls' = calls + 1
             /\ req'.live /\ trim(req'.query) # <<>>)]_vars

\* the timer fired for a whitespace-only text and nothing was requested
C5_Witness ==
  ev = "debounce" /\ searchQuery # <<>> /\ trim(searchQuery) = <<>> /\ ~req.live
    /\ calls = 0

\* C6: right after selectItem(c), by pointer or by Enter: selectedUser = c,
\* searchQuery = "", suggestions = [] and isOpen = false.
C6_CommitPostcondition ==
  (ev \in {"mousedown", "Enter"} /\ arg # "-")
    => (selectedUser = arg /\ searchQuery = <<>> /\ suggestions = <<>> /\ ~isOpen)

\* a commit made while a timer is pending and a request is in flight
C6_Witness ==
  ev = "mousedown" /\ selectedUser \in Users /\ selectedUser = arg
    /\ debounceTimer > 0 /\ req.live

\* C7 (as claimed): right after clearSelection that follows a commit, the
\* list is empty and the dropdown is not open.
C7_ClearStartsFresh ==
  (ev = "clear" /\ arg = "commit") => (suggestions = <<>> /\ ~isOpen)

\* C8 (as claimed): -1 <= activeIndex <= len(suggestions) - 1 in every state.
C8_ActiveIndexInRange ==
  -1 <= activeIndex /\ activeIndex <= Len(suggestions) - 1

\* C9 (as claimed): right after a failure other than cancellation was
\* handled: suggestions = [], isOpen = false and isLoading = false.
C9_FailureClosesList ==
  ev = "fail" => (suggestions = <<>> /\ ~isOpen /\ ~isLoading)

\* the sequence a response body carries, by the interface's two shapes
ResponseSequence(data) ==
  CASE data.tag = "object" -> data.results
    [] data.tag = "array" -> data.elems

\* C10: right after the live request succeeded with sequence R: suggestions
\* is R; if R is not empty the dropdown is open with no highlight; if R is
\* empty the dropdown is closed.
C10_SuccessReplacesList ==
  ev = "success" =>
    LET R == ResponseSequence(arg)
    IN  /\ suggestions = R
        /\ R # <<>> => (isOpen /\ activeIndex = -1)
        /\ R = <<>> => (~isOpen /\ suggestions = <<>>)

\* a two-item answer nested under results replaced the list
C10_Witness ==
  ev = "success" /\ arg.tag = "object" /\ Len(suggestions) = 2 /\ isOpen
    /\ activeIndex = -1

\* C11 (as claimed): the handling of a superseded request's cancellation does
\* not clear the loading flag: isLoading is true whenever a request is in
\* flight (issued, not cancelled, not yet resolved).
C11_LoadingWhileInFlight ==
  req.live => isLoading

\* C12 (as claimed): right after the host writes a candidate c to the bound
\* value the state is that of commit(c): selectedUser = c, suggestions = [],
\* isOpen = false; right after it writes none, that of clear(): no selection
\* and the input enabled.
C12_HostWriteActsAsCommitOrClear ==
  /\ (ev = "hostSet" /\ arg \in Users)
       => (selectedUser = arg /\ suggestions = <<>> /\ ~isOpen)
  /\ (ev = "hostSet" /\ arg = Null) => (selectedUser = Null /\ ~Disabled)

\* C13: the blur itself leaves the dropdown and its items as they are; a
\* mouse-down on a visible item made after the blur and before the grace
\* timer fires commits exactly that item; right after the grace timer fires
\* the dropdown is closed.
C13_GraceDelay ==
  [][/\ ev' = "blur" => (isOpen' = isOpen /\ suggestions' = suggestions)
     /\ (ev' = "mousedown" /\ graceClick')
          => (/\ ~domFocus /\ blurTimers > 0 /\ DropdownVisible
              /\ \E i \in 1..Len(suggestions) : suggestions[i] = arg'
              /\ selectedUser' = arg')
     /\ ev' = "blurTimer" => ~isOpen']_vars

\* an item was committed by a mouse-down during the grace delay
C13_Witness ==
  ev = "mousedown" /\ graceClick /\ selectedUser = arg /\ arg \in Users
    /\ blurTimers > 0

\* C14: once the control is torn down no debounce timer is pending, the
\* debounce callback never runs again and no request is issued: the request
\* counter and the live request change only by settling.
C14_TeardownCancelsDebounce ==
  [][~mounted' =>
       (/\ debounceTimer' = 0
        /\ ev' # "debounce"
        /\ calls' = calls
        /\ outstanding' <= outstanding
        /\ (req' # req => ~req'.live))]_vars

\* the control was torn down while the timer of a non-blank keystroke was
\* pending: that keystroke's text is in the input and nothing was requested
C14_Witness ==
  ev = "unmount" /\ ~mounted /\ searchQuery = lastKey /\ trim(lastKey) # <<>>
    /\ keys > 0 /\ calls = 0 /\ debounceTimer = 0

\* C15: with the dropdown open, ArrowDown adds 1 to activeIndex iff
\* activeIndex < len(suggestions) - 1 and ArrowUp subtracts 1 iff
\* activeIndex > 0, else activeIndex stays (no wrap, no step from 0 to -1);
\* with the dropdown closed both leave activeIndex as it is; neither ever
\* changes suggestions, isOpen or selectedUser.
C15_NavigationSteps ==
  [][/\ ev' = "ArrowDown" =>
          activeIndex' = IF isOpen /\ activeIndex < Len(suggestions) - 1
                         THEN activeIndex + 1 ELSE activeIndex
     /\ ev' = "ArrowUp" =>
          activeIndex' = IF isOpen /\ activeIndex > 0
                         THEN activeIndex - 1 ELSE activeIndex
     /\ ev' \in {"ArrowDown", "ArrowUp"}
          => UNCHANGED <<suggestions, isOpen, selectedUser>>]_vars

\* ArrowDown was pressed with the highlight on the last of two items
C15_Witness ==
  ev = "ArrowDown" /\ isOpen /\ Len(suggestions) = 2 /\ activeIndex = 1
    /\ lastKey # <<>> /\ domFocus

\* C16: at most one request is issued, not cancelled and not yet resolved;
\* a search that starts while a request is in flight cancels it in the same
\* step, so that only the new request, if one is issued, is outstanding.
C16_OneOutstandingRequest ==
  /\ [](outstanding <= 1)
  /\ [][(ev' = "debounce" /\ req.live)
          => (micro' = "abort" /\ outstanding' = IF calls' > calls THEN 1 ELSE 0)]_vars

\* a second search superseded the first: its cancellation was handled and
\* exactly the new request is outstanding
C16_Witness ==
  ev = "abortHandled" /\ req.live /\ outstanding = 1 /\ calls = 1

\* C17 (as claimed): when the timer fires right after a keystroke that left a
\* non-empty text (the quiet period was undisturbed) and there is no
\* selection, a new request is issued for that text.
C17_AsClaimed ==
  [][(ev = "onInput" /\ ~Truthy(selectedUser) /\ searchQuery # <<>>
        /\ ev' = "debounce")
       => (req'.live /\ req'.query = searchQuery /\ calls' = calls + 1)]_vars

\* C17 (amended): after every keystroke the debounce timer is pending and
\* nothing keeps it from firing; when it fires right after a keystroke that
\* left a text that is not blank, a new request is issued for that text,
\* whatever failed or was cancelled before.
C17_RetryAfterKeystroke ==
  /\ [](ev = "onInput" => (debounceTimer > 0 /\ micro = "none"))
  /\ [][(ev = "onInput" /\ ~Truthy(selectedUser) /\ trim(searchQuery) # <<>>
           /\ ev' = "debounce")
          => (req'.live /\ req'.query = searchQuery /\ calls' = calls + 1)]_vars

\* a request was issued for the text typed after a failed request (only a
\* failure leaves the dropdown open over an empty list)
C17_Witness ==
  ev = "debounce" /\ ~Truthy(selectedUser) /\ isOpen /\ suggestions = <<>>
    /\ req.live /\ req.query = lastKey /\ calls = 1

\* C18 (as claimed): whenever Enter commits, activeIndex was inside the list
\* and the committed value is that item, a user, never undefined.
C18_EnterCommitsMember ==
  [][(ev' = "Enter" /\ arg' # "-")
       => (/\ activeIndex < Len(suggestions)
           /\ selectedUser' = suggestions[activeIndex + 1]
           /\ selectedUser' \in Users)]_vars

\* C19 (as claimed): with no grace timer pending, an open dropdown implies
\* a focused input.  Stated for the states in which the control itself has
\* recorded the loss of focus (isFocused is false), the input is enabled and
\* the control is mounted: there a dropdown can only have been opened by a
\* response that arrived after the blur and its grace delay.
C19_OpenOnlyWhileFocused ==
  (mounted /\ ~Disabled /\ blurTimers = 0 /\ ~isFocused /\ isOpen) => domFocus

\* C20 (as claimed): a grace timer that fires after the input regained the
\* focus neither closes the dropdown nor marks the input unfocused, so that
\* with no grace timer left isFocused tells the real focus.
C20_GraceTimerOnlyForItsBlur ==
  [][(ev' = "blurTimer" /\ domFocus)
       => (isOpen' = isOpen /\ isFocused' = isFocused
           /\ (blurTimers' = 0 => isFocused' = domFocus'))]_vars

====
